---- MODULE Spec2Model ----
(***************************************************************************)
(* A model of the Archipelago sphere-report scripts:                       *)
(*   WorldPicker/WorldPicker.py                 (the "ranking" variant)    *)
(*   WorldPicker/TestPys/sphere_reader.py       (the "reader" variant)     *)
(*   WorldPicker/TestPys/sphere_reader_goodenough.py ("goodenough")        *)
(*   WorldPicker/TestPys/Deserialize.py         (decode_file)              *)
(*                                                                         *)
(* Five specifications share the variables:                                *)
(*   SpecFind    - calls of SafeUnpickler.find_class on one unpickler      *)
(*   SpecResolve - attribute resolution over one slot value                *)
(*   Spec        - the report pipeline of the three report variants        *)
(*   SpecScripts - the same, and decode_file of TestPys/Deserialize.py     *)
(*   SpecLoad    - one load() of a SafeUnpickler: objects, memo, BUILD     *)
(***************************************************************************)
EXTENDS Integers, Sequences, FiniteSets, TLC

VARIABLES
    \* --- SafeUnpickler (SpecFind) ---
    known_placeholders, \* dict (module, name) -> class id
    classes,            \* every class created by type(...), by id
    calls,              \* number of find_class calls made
    returned,           \* set of <<key, outcome>> of the calls made so far
    \* --- attribute resolution (SpecResolve) ---
    slot_obj,           \* the slot value under resolution
    slot_id,            \* its key in slot_info
    rop,                \* the operation applied ("none" before any)
    rres,               \* its result
    \* --- report pipeline (Spec) ---
    variant,            \* which script runs
    pc,                 \* position in the script
    data,               \* the decoded graph
    location_db,        \* game -> (location id -> name)
    player_db,          \* slot id -> [name, game]
    out,                \* the lines written to the report file
    sorted_count,       \* the local sorted_count of the ranking variant
    decompressed_data,  \* the bytes the unpickler is to be given
    fileOpened,         \* whether open(output_file, "w") was executed
    log,                \* the messages printed
    raw_data,           \* the bytes read from the input file
    file_buffer,        \* the bytes load() was called on
    raw_dump,           \* decode_file: the <input>.raw.pickle written
    text_dump,          \* decode_file: the <input>.decoded.txt written
    \* --- one load() of a SafeUnpickler (SpecLoad) ---
    script,             \* whose PlaceholderObject class the unpickler uses
    heap,               \* the objects created so far; an index is an identity
    stack,              \* the unpickler's stack, of heap indexes
    memo,               \* the unpickler's memo: memo id -> heap index
    gets,               \* every memo load made so far
    lpc                 \* "run", "stop" or "error"

findVars == <<known_placeholders, classes, calls, returned>>
resolveVars == <<slot_obj, slot_id, rop, rres>>
ioVars == <<raw_data, file_buffer, raw_dump, text_dump>>
pipeVars == <<variant, pc, data, location_db, player_db, out, sorted_count, decompressed_data, fileOpened, log, ioVars>>
loadVars == <<script, heap, stack, memo, gets, lpc>>
vars == <<known_placeholders, classes, calls, returned, slot_obj, slot_id, rop, rres, variant, pc, data, location_db, player_db, out, sorted_count, decompressed_data, fileOpened, log, raw_data, file_buffer, raw_dump, text_dump, script, heap, stack, memo, gets, lpc>>

(***************************************************************************)
(* Python values.  Strings are strings; None and "no such attribute" (an   *)
(* AttributeError) are two tags that are no string of the inputs.          *)
(***************************************************************************)
NoneVal == "<None>"
Absent == "<AttributeError>"

\* Python truthiness of a name/game value: None and "" are falsy.
Truthy(v) == v # NoneVal /\ v # ""

EmptyDict == [k \in {} |-> ""]

(***************************************************************************)
(* SafeUnpickler.find_class                                                *)
(***************************************************************************)
Modules == {"", "builtins", "NetUtils"}
TypeNames == {"list", "NetworkSlot"}
Keys == Modules \X TypeNames

MaxCalls == 4

\* pickle.Unpickler.find_class(module, name) in the reader's environment:
\* __import__("") raises ValueError("Empty module name"), a module that is
\* not installed raises ModuleNotFoundError (an ImportError), a module
\* without the attribute raises AttributeError, builtins.list resolves.
SuperFindClass(module, name) ==
    IF module = "" THEN "ValueError"
    ELSE IF module = "NetUtils" THEN "ImportError"
    ELSE IF name = "list" THEN "resolved"
    ELSE "AttributeError"

\* type(name, (PlaceholderObject,), {"__module__": module})
NewPlaceholderClass(module, name) ==
    [name |-> name, module |-> module, base |-> "PlaceholderObject"]

\* The dict after "if key not in self.known_placeholders: ... = new_class".
MemoizeAlwaysNew(kp, key, id) ==
    [k \in (DOMAIN kp) \cup {key} |-> IF k = key THEN id ELSE kp[k]]

Memoize(kp, key, id) ==
    IF key \in DOMAIN kp THEN kp
    ELSE [k \in (DOMAIN kp) \cup {key} |-> IF k = key THEN id ELSE kp[k]]

\* Which exceptions of super().find_class the except clause catches.
Caught(exc) == exc \in {"ImportError", "AttributeError"}

\* One call of find_class(module, name).
FindClass(module, name) ==
    LET r == SuperFindClass(module, name)
        key == <<module, name>>
        id == Len(classes) + 1
        kp == Memoize(known_placeholders, key, id)
    IN  /\ calls < MaxCalls
        /\ calls' = calls + 1
        /\ IF r = "resolved"
           THEN /\ returned' = returned \cup {<<key, [kind |-> "real", id |-> 0]>>}
                /\ UNCHANGED <<known_placeholders, classes>>
           ELSE IF Caught(r)
           THEN /\ known_placeholders' = kp
                /\ classes' = IF kp[key] = id
                              THEN Append(classes, NewPlaceholderClass(module, name))
                              ELSE classes
                /\ returned' = returned \cup {<<key, [kind |-> "placeholder", id |-> kp[key]]>>}
           ELSE /\ returned' = returned \cup {<<key, [kind |-> "raised", id |-> 0]>>}
                /\ UNCHANGED <<known_placeholders, classes>>
        /\ UNCHANGED <<resolveVars, pipeVars, loadVars>>

FindInit ==
    /\ known_placeholders = <<>>
    /\ classes = <<>>
    /\ calls = 0
    /\ returned = {}

(***************************************************************************)
(* Slot values.  A Placeholder instance is created either by calling the   *)
(* class (REDUCE: __new__ then __init__) or by calling only its __new__    *)
(* (NEWOBJ: __init__ never runs); BUILD then calls __setstate__(state).    *)
(***************************************************************************)
AttrNames == {"name", "game"}
StateVals == {"", "S"}
ArgVals == {"", "A"}
MaxArgs == 2
SlotIds == {1, 2}

Dicts == UNION {[D -> StateVals] : D \in SUBSET AttrNames}
\* An element of a 2-tuple state: a dict, or something that is no dict.
PairElems == {[isDict |-> TRUE, d |-> d] : d \in Dicts} \cup {[isDict |-> FALSE, d |-> EmptyDict]}
NotADict == [isDict |-> FALSE, d |-> EmptyDict]

StNone == [kind |-> "none", d |-> EmptyDict, fst |-> NotADict, snd |-> NotADict]
StDict(d) == [kind |-> "dict", d |-> d, fst |-> NotADict, snd |-> NotADict]
StPair(x, y) == [kind |-> "pair", d |-> EmptyDict, fst |-> x, snd |-> y]
States == {StNone} \cup {StDict(d) : d \in Dicts} \cup {StPair(x, y) : x \in PairElems, y \in PairElems}

ArgSeqs == UNION {[1..n -> ArgVals] : n \in 0..MaxArgs}

\* kind "placeholder": an instance of a class made by find_class;
\* kind "native": a value with real fields name and game;
\* kind "plain": a value with neither (an int, a str, a tuple, a dict).
Placeholder(via, st, args) ==
    [kind |-> "placeholder", via |-> via, state |-> st, args |-> args,
     name |-> Absent, game |-> Absent, hasDict |-> TRUE]
Native(n, g, hd) ==
    [kind |-> "native", via |-> "reduce", state |-> StNone, args |-> <<>>,
     name |-> n, game |-> g, hasDict |-> hd]
Plain ==
    [kind |-> "plain", via |-> "reduce", state |-> StNone, args |-> <<>>,
     name |-> Absent, game |-> Absent, hasDict |-> FALSE]

SlotObjs ==
    {Placeholder(v, st, a) : v \in {"reduce", "newobj"}, st \in States, a \in ArgSeqs}
    \cup {Native(n, g, hd) : n \in {"", "A"}, g \in {"", "A"}, hd \in BOOLEAN}
    \cup {Plain}

\* The lookup both __getattr__ bodies start with: the state mapping, then
\* the two mappings of a 2-tuple state, first before second.
StateLookup(st, name) ==
    IF st.kind = "dict" /\ name \in DOMAIN st.d THEN st.d[name]
    ELSE IF st.kind = "pair"
    THEN IF st.fst.isDict /\ name \in DOMAIN st.fst.d THEN st.fst.d[name]
         ELSE IF st.snd.isDict /\ name \in DOMAIN st.snd.d THEN st.snd.d[name]
         ELSE Absent
    ELSE Absent

\* The constructor-argument convention: element 0 is name, element 1 game.
ArgsLookup(args, name) ==
    IF Len(args) > 0 /\ name = "name" /\ Len(args) >= 1 THEN args[1]
    ELSE IF Len(args) > 0 /\ name = "game" /\ Len(args) >= 2 THEN args[2]
    ELSE Absent

\* PlaceholderObject.__getattr__ of WorldPicker.py and sphere_reader.py.
PlaceholderGetAttr(obj, name) ==
    LET s == StateLookup(obj.state, name)
    IN  IF s # Absent THEN s ELSE ArgsLookup(obj.args, name)

\* PlaceholderObject.__getattr__ of sphere_reader_goodenough.py: state only.
PlaceholderGetAttrGE(obj, name) == StateLookup(obj.state, name)

\* getattr(obj, name) for name in {name, game}; Absent is AttributeError.
GetAttr(obj, name) ==
    IF obj.kind = "placeholder" THEN PlaceholderGetAttr(obj, name)
    ELSE IF obj.kind = "native" THEN (IF name = "name" THEN obj.name ELSE obj.game)
    ELSE Absent

GetAttrGE(obj, name) ==
    IF obj.kind = "placeholder" THEN PlaceholderGetAttrGE(obj, name)
    ELSE IF obj.kind = "native" THEN (IF name = "name" THEN obj.name ELSE obj.game)
    ELSE Absent

\* state.get(key, default)
DictGet(d, key, default) == IF key \in DOMAIN d THEN d[key] ELSE default

\* resolve_player_info(slot_obj, slot_id) -> <<p_name, p_game>>
resolve_player_info(obj, sid) ==
    LET n1 == GetAttr(obj, "name")
        g1 == GetAttr(obj, "game")
        name1 == IF n1 # Absent /\ Truthy(n1) THEN n1 ELSE "Unknown"
        game1 == IF g1 # Absent /\ Truthy(g1) THEN g1 ELSE "Unknown"
        \* Strategy 2: getattr(slot_obj, '_new_args', None)
        useArgs == name1 = "Unknown" /\ obj.kind = "placeholder" /\ Len(obj.args) >= 2
        name2 == IF useArgs THEN obj.args[1] ELSE name1
        game2 == IF useArgs THEN obj.args[2] ELSE game1
        \* Strategy 3: getattr(slot_obj, '_state', None), a dict only
        useState == name2 = "Unknown" /\ obj.kind = "placeholder" /\ obj.state.kind = "dict"
        name3 == IF useState THEN DictGet(obj.state.d, "name", name2) ELSE name2
        game3 == IF useState THEN DictGet(obj.state.d, "game", game2) ELSE game2
    IN  <<name3, game3>>

\* hasattr(obj, '_state') under sphere_reader_goodenough.py's class: set by
\* __init__ (REDUCE) or by __setstate__; otherwise __getattr__ raises.
HasStateGE(obj) ==
    obj.kind = "placeholder" /\ (obj.via = "reduce" \/ obj.state.kind # "none")

\* hasattr(obj, '_args'): set by __init__ only.
HasArgsGE(obj) == obj.kind = "placeholder" /\ obj.via = "reduce"

\* resolve_attribute(obj, attr_name); NoneVal is the "return None".
resolve_attribute(obj, attr) ==
    LET v == GetAttrGE(obj, attr)
        viaArgs == IF HasArgsGE(obj) THEN ArgsLookup(obj.args, attr) ELSE Absent
    IN  IF v # Absent /\ v # NoneVal THEN v
        ELSE IF HasStateGE(obj) /\ obj.state.kind = "dict"
        THEN DictGet(obj.state.d, attr, NoneVal)
        ELSE IF HasStateGE(obj) /\ obj.state.kind = "pair" /\ StateLookup(obj.state, attr) # Absent
        THEN StateLookup(obj.state, attr)
        ELSE IF viaArgs # Absent THEN viaArgs
        ELSE NoneVal

(***************************************************************************)
(* The decoded graph and the report.                                       *)
(***************************************************************************)
MaxSpheres == 2
PlayerIds == {1, 2}
LocIds == {10, 11}
LocSets == {{10}, {10, 11}}

Digits == <<"0", "1", "2", "3", "4", "5", "6", "7", "8", "9">>

\* str(n) of a non-negative int, as the f-strings format it.
RECURSIVE IntStr(_)
IntStr(n) ==
    IF n < 10 THEN Digits[n + 1]
    ELSE IntStr(n \div 10) \o Digits[(n % 10) + 1]

\* A sphere: dict player id -> set of location ids.
Spheres == UNION {[P -> LocSets] : P \in SUBSET PlayerIds}
SphereLists == UNION {[1..n -> Spheres] : n \in 0..MaxSpheres}

\* data['datapackage']: game -> game_data; location_name_to_id is kept as
\* its items() in insertion order.
GameFull == [hasL2I |-> TRUE, l2i |-> <<<<"Start", 10>>, <<"End", 11>>>>]
GamePartial == [hasL2I |-> TRUE, l2i |-> <<<<"Start", 10>>>>]
GameBare == [hasL2I |-> FALSE, l2i |-> <<>>]
\* Two names of one location id.
GameDup == [hasL2I |-> TRUE, l2i |-> <<<<"Start", 10>>, <<"Begin", 10>>, <<"End", 11>>>>]
Datapackages ==
    {[g \in {"GameA"} |-> gd] : gd \in {GameFull, GamePartial, GameBare, GameDup}}

\* data['slot_info'] as its items() in insertion order.
SlotAlice == Placeholder("newobj", StNone, <<"Alice", "GameA">>)
SlotBob == Placeholder("reduce", StDict([a \in AttrNames |-> IF a = "name" THEN "Bob" ELSE "GameA"]), <<>>)
SlotBare == Placeholder("reduce", StNone, <<>>)
SlotInfos ==
    { <<>>,
      <<[id |-> 1, obj |-> SlotAlice]>>,
      <<[id |-> 2, obj |-> SlotBob], [id |-> 1, obj |-> SlotAlice]>>,
      <<[id |-> 1, obj |-> SlotAlice], [id |-> 2, obj |-> SlotBare]>>,
      <<[id |-> 1, obj |-> Plain]>> }

NoData ==
    [hasSpheres |-> FALSE, spheres |-> <<>>, hasDatapackage |-> FALSE,
     datapackage |-> EmptyDict, hasSlotInfo |-> FALSE, slot_info |-> <<>>]

Graphs ==
    {[hasSpheres |-> TRUE, spheres |-> sp, hasDatapackage |-> hd,
      datapackage |-> IF hd THEN dp ELSE EmptyDict,
      hasSlotInfo |-> hs, slot_info |-> IF hs THEN si ELSE <<>>] :
        sp \in SphereLists, hd \in BOOLEAN, dp \in Datapackages,
        hs \in BOOLEAN, si \in SlotInfos}
    \cup
    {[hasSpheres |-> FALSE, spheres |-> <<>>, hasDatapackage |-> hd,
      datapackage |-> IF hd THEN dp ELSE EmptyDict,
      hasSlotInfo |-> hs, slot_info |-> IF hs THEN si ELSE <<>>] :
        hd \in BOOLEAN, dp \in Datapackages, hs \in BOOLEAN, si \in SlotInfos}

\* sorted(S) of a set of ints, ascending.
RECURSIVE SortedAsc(_)
SortedAsc(S) ==
    IF S = {} THEN <<>>
    ELSE LET m == CHOOSE x \in S : \A y \in S : x <= y
         IN  <<m>> \o SortedAsc(S \ {m})

\* {v: k for k, v in name_to_id.items()}: a later item overwrites.
RECURSIVE InvertItems(_, _)
InvertItems(items, acc) ==
    IF items = <<>> THEN acc
    ELSE LET k == Head(items)[1]
             v == Head(items)[2]
         IN  InvertItems(Tail(items),
                 [i \in (DOMAIN acc) \cup {v} |-> IF i = v THEN k ELSE acc[i]])

\* The location database: only games that have location_name_to_id.
BuildLocationDb(d) ==
    IF ~d.hasDatapackage THEN EmptyDict
    ELSE [g \in {x \in DOMAIN d.datapackage : d.datapackage[x].hasL2I} |->
              InvertItems(d.datapackage[g].l2i, EmptyDict)]

Line(t, n, a, b) == [t |-> t, n |-> n, a |-> a, b |-> b]

HeaderLines(sp) ==
    << Line("title", 0, "", ""), Line("source", 0, "", ""),
       Line("total", Len(sp), "", ""), Line("separator", 0, "", "") >>

\* player_db.get(player_id, {'name': f"Player {player_id}", 'game': 'Unknown'})
PlayerInfo(db, pid) ==
    IF pid \in DOMAIN db THEN db[pid]
    ELSE [name |-> "Player " \o IntStr(pid), game |-> "Unknown"]

\* loc_map.get(loc_id, f"Unknown ID {loc_id}") with
\* loc_map = location_db.get(p_info['game'], {})
LocNameOfAnyGame(ldb, game, loc) ==
    IF \E g \in DOMAIN ldb : loc \in DOMAIN ldb[g]
    THEN ldb[CHOOSE g \in DOMAIN ldb : loc \in DOMAIN ldb[g]][loc]
    ELSE "Unknown ID " \o IntStr(loc)

LocName(ldb, game, loc) ==
    IF game \in DOMAIN ldb /\ loc \in DOMAIN ldb[game] THEN ldb[game][loc]
    ELSE "Unknown ID " \o IntStr(loc)

RECURSIVE LocLines(_, _, _)
LocLines(ldb, game, locs) ==
    IF locs = <<>> THEN <<>>
    ELSE <<Line("loc", 0, LocName(ldb, game, Head(locs)), "")>>
         \o LocLines(ldb, game, Tail(locs))

\* One player's lines: the Player line, the locations by ascending id, "\n".
PlayerBlock(ldb, pdb, sphere, pid) ==
    LET info == PlayerInfo(pdb, pid)
    IN  <<Line("player", 0, info.name, info.game)>>
        \o LocLines(ldb, info.game, SortedAsc(sphere[pid]))
        \o <<Line("blank", 0, "", "")>>

RECURSIVE PlayerBlocks(_, _, _, _)
PlayerBlocks(ldb, pdb, sphere, pids) ==
    IF pids = <<>> THEN <<>>
    ELSE PlayerBlock(ldb, pdb, sphere, Head(pids))
         \o PlayerBlocks(ldb, pdb, sphere, Tail(pids))

\* The body of "for i, sphere in enumerate(spheres_data)" without ranking.
SphereBlock(ldb, pdb, sphere, i) ==
    <<Line("sphere", i + 1, "", "")>>
    \o (IF DOMAIN sphere = {} THEN <<Line("empty", 0, "", "")>>
        ELSE PlayerBlocks(ldb, pdb, sphere, SortedAsc(DOMAIN sphere))
             \o <<Line("blank", 0, "", "")>>)

\* The sphere loop of sphere_reader.py and sphere_reader_goodenough.py,
\* from 0-based index i on.
RECURSIVE PlainLoop(_, _, _, _)
PlainLoop(ldb, pdb, sp, i) ==
    IF i >= Len(sp) THEN <<>>
    ELSE SphereBlock(ldb, pdb, sp[i + 1], i) \o PlainLoop(ldb, pdb, sp, i + 1)

(***************************************************************************)
(* The ranking variant's sphere loop (WorldPicker.py).                     *)
(***************************************************************************)
\* count_dict after the player loop of one sphere, as its items() in
\* insertion order: one increment per location id iterated.
RECURSIVE CountItems(_, _)
CountItems(sphere, pids) ==
    IF pids = <<>> THEN <<>>
    ELSE <<<<Head(pids), Len(SortedAsc(sphere[Head(pids)]))>>>>
         \o CountItems(sphere, Tail(pids))

\* Insert item x into a list kept in descending count order, after every
\* item whose count is at least x's (a stable sort keeps encounter order).
RECURSIVE InsertDesc(_, _)
InsertDesc(sorted, x) ==
    IF sorted = <<>> THEN <<x>>
    ELSE IF Head(sorted)[2] >= x[2] THEN <<Head(sorted)>> \o InsertDesc(Tail(sorted), x)
    ELSE <<x>> \o sorted

RECURSIVE InsertAsc(_, _)
InsertAsc(sorted, x) ==
    IF sorted = <<>> THEN <<x>>
    ELSE IF Head(sorted)[2] <= x[2] THEN <<Head(sorted)>> \o InsertAsc(Tail(sorted), x)
    ELSE <<x>> \o sorted

RECURSIVE SortItems(_, _)
SortItems(items, acc) ==
    IF items = <<>> THEN acc
    ELSE SortItems(Tail(items), InsertDesc(acc, Head(items)))

RECURSIVE SortItemsAsc(_, _)
SortItemsAsc(items, acc) ==
    IF items = <<>> THEN acc
    ELSE SortItemsAsc(Tail(items), InsertAsc(acc, Head(items)))

\* sorted(count_dict.items(), key=lambda x: x[1], reverse=True)
SortedCountAscending(items) == SortItemsAsc(items, <<>>)

SortedCount(items) == SortItems(items, <<>>)

Unbound == [bound |-> FALSE, v |-> <<>>]

\* "if i != 0: break" - whether the loop stops at a non-empty sphere i.
BreaksAt(i) == i # 0

\* The loop from 0-based index i on; st = [out, sorted_count].
RECURSIVE RankLoop(_, _, _, _, _)
RankLoop(ldb, pdb, sp, i, st) ==
    IF i >= Len(sp) THEN st
    ELSE LET sphere == sp[i + 1]
             hdr == Append(st.out, Line("sphere", i + 1, "", ""))
         IN  IF DOMAIN sphere = {}
             THEN RankLoop(ldb, pdb, sp, i + 1,
                      [st EXCEPT !.out = Append(hdr, Line("empty", 0, "", ""))])
             ELSE IF BreaksAt(i) THEN [st EXCEPT !.out = hdr]
             ELSE LET pids == SortedAsc(DOMAIN sphere)
                  IN  RankLoop(ldb, pdb, sp, i + 1,
                          [out |-> hdr \o PlayerBlocks(ldb, pdb, sphere, pids)
                                       \o <<Line("blank", 0, "", "")>>,
                           sorted_count |->
                               [bound |-> TRUE, v |-> SortedCount(CountItems(sphere, pids))]])

\* The lines of the ranking block after its header.
RECURSIVE RankLines(_, _)
RankLines(pdb, sc) ==
    IF sc = <<>> THEN <<>>
    ELSE LET info == PlayerInfo(pdb, Head(sc)[1])
         IN  <<Line("rank", Head(sc)[2], info.name, info.game)>>
             \o RankLines(pdb, Tail(sc))

(***************************************************************************)
(* The player table.                                                       *)
(***************************************************************************)
\* WorldPicker.py and sphere_reader.py: the pair of resolve_player_info.
PlayerEntry(obj, sid) ==
    LET r == resolve_player_info(obj, sid)
    IN  [name |-> r[1], game |-> r[2]]

\* sphere_reader_goodenough.py: resolve_attribute, then the fallbacks.
PlayerEntryGE(obj, sid) ==
    LET n == resolve_attribute(obj, "name")
        g == resolve_attribute(obj, "game")
    IN  [name |-> IF Truthy(n) THEN n ELSE "Unknown Player " \o IntStr(sid),
         game |-> IF Truthy(g) THEN g ELSE "Unknown Game"]

\* sphere_reader.py prints slot_obj.__dict__ for the first slot it fails
\* to resolve: an AttributeError when the value has no __dict__.
DebugPrintRaises(obj, entry, extraction_failed) ==
    /\ (entry.name = "Unknown" \/ entry.game = "Unknown")
    /\ ~extraction_failed
    /\ ~obj.hasDict

\* "for slot_id, slot_obj in data['slot_info'].items()" of variant v;
\* acc = [db, failed, raised].
RECURSIVE BuildPlayerDb(_, _, _)
BuildPlayerDb(v, items, acc) ==
    IF items = <<>> \/ acc.raised THEN acc
    ELSE LET sid == Head(items).id
             obj == Head(items).obj
             e == IF v = "goodenough" THEN PlayerEntryGE(obj, sid) ELSE PlayerEntry(obj, sid)
             unknown == e.name = "Unknown" \/ e.game = "Unknown"
         IN  IF v = "reader" /\ DebugPrintRaises(obj, e, acc.failed)
             THEN [acc EXCEPT !.raised = TRUE]
             ELSE BuildPlayerDb(v, Tail(items),
                      [db |-> [k \in (DOMAIN acc.db) \cup {sid} |->
                                   IF k = sid THEN e ELSE acc.db[k]],
                       failed |-> acc.failed \/ (v = "reader" /\ unknown),
                       raised |-> FALSE])

(***************************************************************************)
(* The scripts, stage by stage.                                            *)
(***************************************************************************)
Variants == {"ranking", "reader", "goodenough"}

\* Input files as byte strings: the empty file; a version tag 3 followed by
\* a zlib stream; a bare pickle (it starts with the PROTO opcode 0x80), whose
\* bytes after byte 0 are no zlib stream.
RawFiles == {<<>>, <<3, 120, 128, 46>>, <<128, 46>>}

\* zlib.decompress(b): a stream is the header byte 0x78 followed by its
\* payload; anything else raises zlib.error.
ZlibDecompress(b) ==
    IF Len(b) >= 1 /\ b[1] = 120 THEN [ok |-> TRUE, bytes |-> Tail(b)]
    ELSE [ok |-> FALSE, bytes |-> <<>>]

Say(msg) == log' = Append(log, msg)

\* The message of the outermost "except Exception" of each script.
OuterError(v) ==
    IF v = "ranking" THEN "An unexpected error occurred" ELSE "Error processing file"

\* os.path.exists(file_path)
Start ==
    /\ pc = "start"
    /\ \E exists \in BOOLEAN :
          IF ~exists
          THEN /\ Say("Error: File not found")
               /\ pc' = "done"
          ELSE /\ Say(IF variant = "ranking" THEN "Processing" ELSE "Loading")
               /\ pc' = IF variant = "ranking" THEN "read" ELSE "unpickle"
    /\ UNCHANGED <<variant, data, location_db, player_db, out, sorted_count,
                   decompressed_data, fileOpened, findVars, resolveVars>>
    /\ UNCHANGED <<ioVars, loadVars>>

\* raw_data = f.read(); "if not raw_data"
ReadFile ==
    /\ pc = "read"
    /\ \E raw \in RawFiles :
          /\ raw_data' = raw
          /\ IF raw = <<>>
             THEN /\ Say("Error: File is empty.")
                  /\ pc' = "done"
             ELSE /\ Say("File size")
                  /\ pc' = "decompress"
    /\ UNCHANGED <<variant, data, location_db, player_db, out, sorted_count,
                   decompressed_data, fileOpened, findVars, resolveVars>>
    /\ UNCHANGED <<file_buffer, raw_dump, text_dump, loadVars>>

\* "decompressed_data = raw_data" of the except zlib.error branch.
FallbackBytes(raw) == raw

\* zlib.decompress(raw_data[1:]), or the raw bytes on zlib.error
Decompress ==
    /\ pc = "decompress"
    /\ LET r == ZlibDecompress(Tail(raw_data))
       IN  IF r.ok
           THEN /\ decompressed_data' = r.bytes
                /\ UNCHANGED log
           ELSE /\ decompressed_data' = FallbackBytes(raw_data)
                /\ Say("Zlib decompression failed. Trying to read as raw pickle")
    /\ pc' = "unpickle"
    /\ UNCHANGED <<variant, data, location_db, player_db, out, sorted_count,
                   fileOpened, findVars, resolveVars>>
    /\ UNCHANGED <<ioVars, loadVars>>

\* Where a failed load() leads: the ranking variant returns from its inner
\* except, the others from their outer except.
AfterDecodeFailureContinue(v) == "check"

AfterDecodeFailure(v) == "done"

\* data = SafeUnpickler(io.BytesIO(decompressed_data)).load(); the two
\* other variants load from the opened file itself.
Unpickle ==
    /\ pc = "unpickle"
    /\ file_buffer' = decompressed_data
    /\ \/ \E g \in Graphs :
             /\ data' = g
             /\ Say(IF variant = "ranking" THEN "Unpickling successful."
                    ELSE "Data loaded successfully.")
             /\ pc' = "check"
       \/ /\ Say(IF variant = "ranking" THEN "Error unpickling data"
                 ELSE OuterError(variant))
          /\ pc' = AfterDecodeFailure(variant)
          /\ UNCHANGED data
    /\ UNCHANGED <<variant, location_db, player_db, out, sorted_count,
                   decompressed_data, fileOpened, findVars, resolveVars>>
    /\ UNCHANGED <<raw_data, raw_dump, text_dump, loadVars>>

\* if 'spheres' not in data: ... return
SpheresMissingIgnored(d) == FALSE

SpheresMissing(d) == ~d.hasSpheres

CheckSpheres ==
    /\ pc = "check"
    /\ IF SpheresMissing(data)
       THEN /\ Say("Error: 'spheres' key not found")
            /\ pc' = "done"
       ELSE /\ UNCHANGED log
            /\ pc' = "build"
    /\ UNCHANGED <<variant, data, location_db, player_db, out, sorted_count,
                   decompressed_data, fileOpened, findVars, resolveVars>>
    /\ UNCHANGED <<ioVars, loadVars>>

\* The location and the player database.
BuildDatabases ==
    /\ pc = "build"
    /\ LET r == BuildPlayerDb(variant, data.slot_info,
                    [db |-> EmptyDict, failed |-> FALSE, raised |-> FALSE])
       IN  /\ location_db' = BuildLocationDb(data)
           /\ player_db' = r.db
           /\ IF r.raised
              THEN /\ Say(OuterError(variant))
                   /\ pc' = "done"
              ELSE /\ UNCHANGED log
                   /\ pc' = "report"
    /\ UNCHANGED <<variant, data, out, sorted_count, decompressed_data,
                   fileOpened, findVars, resolveVars>>
    /\ UNCHANGED <<ioVars, loadVars>>

\* with open(output_file, "w") as out: ... of the ranking variant
GenerateRanking ==
    /\ pc = "report"
    /\ variant = "ranking"
    /\ LET sp == data.spheres
           st == RankLoop(location_db, player_db, sp, 0,
                     [out |-> HeaderLines(sp), sorted_count |-> Unbound])
           hdr == Append(st.out, Line("ranking", 0, "", ""))
       IN  /\ fileOpened' = TRUE
           /\ sorted_count' = st.sorted_count
           /\ IF st.sorted_count.bound
              THEN /\ out' = hdr \o RankLines(player_db, st.sorted_count.v)
                   /\ Say("SUCCESS: Report generated")
              ELSE \* UnboundLocalError at "for player_id, count in sorted_count"
                   /\ out' = hdr
                   /\ Say(OuterError(variant))
    /\ pc' = "done"
    /\ UNCHANGED <<variant, data, location_db, player_db, decompressed_data,
                   findVars, resolveVars>>
    /\ UNCHANGED <<ioVars, loadVars>>

\* with open(output_file, "w") as out: ... of the two other variants
GeneratePlain ==
    /\ pc = "report"
    /\ variant # "ranking"
    /\ fileOpened' = TRUE
    /\ out' = HeaderLines(data.spheres)
              \o PlainLoop(location_db, player_db, data.spheres, 0)
    /\ Say("SUCCESS: Readable report written")
    /\ pc' = "done"
    /\ UNCHANGED <<variant, data, location_db, player_db, sorted_count,
                   decompressed_data, findVars, resolveVars>>
    /\ UNCHANGED <<ioVars, loadVars>>

\* Nothing read, nothing written yet.
NoRawDump == [written |-> FALSE, bytes |-> <<>>]
NoTextDump == [written |-> FALSE, data |-> NoData]

IoInit ==
    /\ raw_data = <<>>
    /\ file_buffer = <<>>
    /\ raw_dump = NoRawDump
    /\ text_dump = NoTextDump

\* No memo load made yet.
NoGets == [all |-> {}, live |-> {}, changed |-> {}]

LoadIdle ==
    /\ script = "WorldPicker"
    /\ heap = <<>>
    /\ stack = <<>>
    /\ memo = <<>>
    /\ gets = NoGets
    /\ lpc = "idle"

PipeIdle ==
    /\ variant = "ranking"
    /\ pc = "idle"
    /\ data = NoData
    /\ location_db = EmptyDict
    /\ player_db = EmptyDict
    /\ out = <<>>
    /\ sorted_count = Unbound
    /\ decompressed_data = <<>>
    /\ fileOpened = FALSE
    /\ log = <<>>
    /\ IoInit

ResolveIdle ==
    /\ slot_obj = Plain
    /\ slot_id = 1
    /\ rop = "none"
    /\ rres = [attr |-> "", val |-> "", name |-> "", game |-> "", raised |-> FALSE]

Init ==
    /\ FindInit
    /\ ResolveIdle
    /\ variant \in Variants
    /\ pc = "start"
    /\ data = NoData
    /\ location_db = EmptyDict
    /\ player_db = EmptyDict
    /\ out = <<>>
    /\ sorted_count = Unbound
    /\ decompressed_data = <<>>
    /\ fileOpened = FALSE
    /\ log = <<>>
    /\ IoInit
    /\ LoadIdle

Next ==
    \/ Start
    \/ ReadFile
    \/ Decompress
    \/ Unpickle
    \/ CheckSpheres
    \/ BuildDatabases
    \/ GenerateRanking
    \/ GeneratePlain

Spec == Init /\ [][Next]_vars

(***************************************************************************)
(* decode_file of Deserialize.py, stage by stage.                          *)
(***************************************************************************)
Says(msgs) == log' = log \o msgs

\* The three prints of "except Exception" around the decode and the text
\* dump.
TextDumpFailure ==
    << "Warning: Could not generate readable text dump due to object complexity.",
       "Error details",
       "However, the raw file was generated successfully." >>

DecodeFrame == UNCHANGED <<variant, location_db, player_db, out, sorted_count,
                           fileOpened, findVars, resolveVars, loadVars>>

\* os.path.exists(input_path)
DecodeStart ==
    /\ pc = "d_start"
    /\ \E exists \in BOOLEAN :
          IF ~exists
          THEN /\ Say("Error: File not found")
               /\ pc' = "done"
          ELSE /\ Say("Processing")
               /\ pc' = "d_read"
    /\ UNCHANGED <<data, decompressed_data, ioVars>>
    /\ DecodeFrame

\* raw_data = f.read(); "if not raw_data"; format_version = raw_data[0]
DecodeRead ==
    /\ pc = "d_read"
    /\ \E raw \in RawFiles :
          /\ raw_data' = raw
          /\ IF raw = <<>>
             THEN /\ Say("Error: File is empty.")
                  /\ pc' = "done"
             ELSE /\ Say("Format Version")
                  /\ pc' = "d_decompress"
    /\ UNCHANGED <<data, decompressed_data, file_buffer, raw_dump, text_dump>>
    /\ DecodeFrame

\* Where "except zlib.error" of decode_file leads: it returns.
AfterInflateFailureContinue == "d_rawdump"

AfterInflateFailure == "done"

\* decompressed_data = zlib.decompress(raw_data[1:])
DecodeDecompress ==
    /\ pc = "d_decompress"
    /\ LET r == ZlibDecompress(Tail(raw_data))
       IN  IF r.ok
           THEN /\ decompressed_data' = r.bytes
                /\ UNCHANGED log
                /\ pc' = "d_rawdump"
           ELSE /\ Say("Error: Zlib decompression failed.")
                /\ UNCHANGED decompressed_data
                /\ pc' = AfterInflateFailure
    /\ UNCHANGED <<data, ioVars>>
    /\ DecodeFrame

\* Where "except Exception" of the raw dump leads: on to the text stage.
AfterRawDumpFailureAborts == "done"

AfterRawDumpFailure == "d_decode"

\* The raw dump: open(raw_output_path, 'wb') and write, in its own try;
\* then the print that announces the text stage.
DecodeWriteRaw ==
    /\ pc = "d_rawdump"
    /\ \E ok \in BOOLEAN :
          IF ok
          THEN /\ raw_dump' = [written |-> TRUE, bytes |-> decompressed_data]
               /\ Says(<< "SUCCESS: Raw decompressed file saved",
                          "You can use this .pickle file with other tools or scripts.",
                          "Attempting to generate readable text format..." >>)
               /\ pc' = "d_decode"
          ELSE /\ UNCHANGED raw_dump
               /\ Says(<< "Warning: Could not write raw pickle file.",
                          "Attempting to generate readable text format..." >>)
               /\ pc' = AfterRawDumpFailure
    /\ UNCHANGED <<data, decompressed_data, raw_data, file_buffer, text_dump>>
    /\ DecodeFrame

\* data = SafeUnpickler(io.BytesIO(decompressed_data)).load()
DecodeLoad ==
    /\ pc = "d_decode"
    /\ file_buffer' = decompressed_data
    /\ \/ \E g \in Graphs :
             /\ data' = g
             /\ UNCHANGED log
             /\ pc' = "d_textdump"
       \/ /\ Says(TextDumpFailure)
          /\ UNCHANGED data
          /\ pc' = "done"
    /\ UNCHANGED <<decompressed_data, raw_data, raw_dump, text_dump>>
    /\ DecodeFrame

\* pprint.pprint(data, stream=out_f, ...) into text_output_path
DecodeWriteText ==
    /\ pc = "d_textdump"
    /\ \E ok \in BOOLEAN :
          IF ok
          THEN /\ text_dump' = [written |-> TRUE, data |-> data]
               /\ Say("SUCCESS: Readable text dump saved")
          ELSE /\ UNCHANGED text_dump
               /\ Says(TextDumpFailure)
    /\ pc' = "done"
    /\ UNCHANGED <<data, decompressed_data, raw_data, file_buffer, raw_dump>>
    /\ DecodeFrame

NextDecode ==
    \/ DecodeStart
    \/ DecodeRead
    \/ DecodeDecompress
    \/ DecodeWriteRaw
    \/ DecodeLoad
    \/ DecodeWriteText

\* Any of the four scripts is run on a file.
InitScripts ==
    /\ FindInit
    /\ ResolveIdle
    /\ LoadIdle
    /\ variant \in Variants \cup {"decode"}
    /\ pc = IF variant = "decode" THEN "d_start" ELSE "start"
    /\ data = NoData
    /\ location_db = EmptyDict
    /\ player_db = EmptyDict
    /\ out = <<>>
    /\ sorted_count = Unbound
    /\ decompressed_data = <<>>
    /\ fileOpened = FALSE
    /\ log = <<>>
    /\ IoInit

NextScripts == Next \/ NextDecode

SpecScripts == InitScripts /\ [][NextScripts]_vars

(***************************************************************************)
(* SpecFind: any sequence of find_class calls on one SafeUnpickler.        *)
(***************************************************************************)
InitFind == FindInit /\ ResolveIdle /\ PipeIdle /\ LoadIdle

NextFind == \E m \in Modules, n \in TypeNames : FindClass(m, n)

SpecFind == InitFind /\ [][NextFind]_vars

(***************************************************************************)
(* SpecResolve: one slot value, one resolution operation applied to it.    *)
(***************************************************************************)
NoResult == [attr |-> "", val |-> "", name |-> "", game |-> "", raised |-> FALSE]

InitResolve ==
    /\ FindInit
    /\ PipeIdle
    /\ LoadIdle
    /\ slot_obj \in SlotObjs
    /\ slot_id \in SlotIds
    /\ rop = "none"
    /\ rres = NoResult

\* getattr(slot_obj, a) on a Placeholder of WorldPicker.py: __getattr__
DoGetAttr ==
    /\ rop = "none"
    /\ slot_obj.kind = "placeholder"
    /\ \E a \in AttrNames :
          rres' = [NoResult EXCEPT !.attr = a, !.val = GetAttr(slot_obj, a)]
    /\ rop' = "getattr"
    /\ UNCHANGED <<slot_obj, slot_id, findVars, pipeVars, loadVars>>

DoResolvePlayerInfo ==
    /\ rop = "none"
    /\ LET r == resolve_player_info(slot_obj, slot_id)
       IN  rres' = [NoResult EXCEPT !.name = r[1], !.game = r[2]]
    /\ rop' = "resolve_player_info"
    /\ UNCHANGED <<slot_obj, slot_id, findVars, pipeVars, loadVars>>

DoResolveAttribute ==
    /\ rop = "none"
    /\ \E a \in AttrNames :
          rres' = [NoResult EXCEPT !.attr = a, !.val = resolve_attribute(slot_obj, a)]
    /\ rop' = "resolve_attribute"
    /\ UNCHANGED <<slot_obj, slot_id, findVars, pipeVars, loadVars>>

\* The player-table loop of variant v over slot_info = {slot_id: slot_obj}.
DoPlayerEntry ==
    /\ rop = "none"
    /\ \E v \in Variants :
          LET r == BuildPlayerDb(v, <<[id |-> slot_id, obj |-> slot_obj]>>,
                       [db |-> EmptyDict, failed |-> FALSE, raised |-> FALSE])
          IN  rres' = IF r.raised
                      THEN [NoResult EXCEPT !.attr = v, !.raised = TRUE]
                      ELSE [NoResult EXCEPT !.attr = v, !.name = r.db[slot_id].name,
                                            !.game = r.db[slot_id].game]
    /\ rop' = "entry"
    /\ UNCHANGED <<slot_obj, slot_id, findVars, pipeVars, loadVars>>

NextResolve ==
    \/ DoGetAttr
    \/ DoResolvePlayerInfo
    \/ DoResolveAttribute
    \/ DoPlayerEntry

SpecResolve == InitResolve /\ [][NextResolve]_vars

(***************************************************************************)
(* SpecLoad: one load() of a SafeUnpickler over any opcode stream.  The    *)
(* unpickler is pickle.Unpickler with find_class replaced; objects live in *)
(* a heap and the stack and the memo hold references (heap indexes), so    *)
(* that two references to one object are one index.                        *)
(***************************************************************************)
Scripts == {"WorldPicker", "Deserialize"}
MemoIds == {0, 1}
ObjectIds == {1, 2}
StackSlots == {1, 2, 3}
MaxRestores == 2

\* The constructor calls an opcode stream can make on a Placeholder class:
\* NEWOBJ and NEWOBJ_EX call only __new__, REDUCE calls the class.
Ctors ==
    {[via |-> "newobj", cls |-> <<"NetUtils", "NetworkSlot">>,
      args |-> <<"A">>, kwargs |-> EmptyDict],
     [via |-> "newobj_ex", cls |-> <<"NetUtils", "NetworkSlot">>,
      args |-> <<"A">>, kwargs |-> [k \in {"game"} |-> "A"]],
     [via |-> "reduce", cls |-> <<"", "list">>,
      args |-> <<"A", "A">>, kwargs |-> EmptyDict]}

\* The states a BUILD opcode hands to __setstate__.
RestoreVals == {StDict(EmptyDict), StDict([k \in {"name"} |-> "S"])}

Unset == [set |-> FALSE, args |-> <<>>, kwargs |-> EmptyDict]
Recorded(args, kwargs) == [set |-> TRUE, args |-> args, kwargs |-> kwargs]

\* PlaceholderObject.__new__ of WorldPicker.py records _new_args and
\* _new_kwargs; the class of Deserialize.py has no __new__.
AfterNew(sc, c) ==
    [cls |-> c.cls,
     new |-> IF sc = "WorldPicker" THEN Recorded(c.args, c.kwargs) ELSE Unset,
     init |-> Unset,
     state |-> [set |-> FALSE, v |-> StNone],
     ctor |-> c, restored |-> <<>>]

\* PlaceholderObject.__init__: _init_args, _init_kwargs (WorldPicker.py),
\* _args, _kwargs (Deserialize.py), and _state = None.
AfterInit(obj, c) ==
    [obj EXCEPT !.init = Recorded(c.args, c.kwargs),
                !.state = [set |-> TRUE, v |-> StNone]]

\* The instance a constructor call returns; "ctor" keeps the call made and
\* "restored" the states handed to __setstate__ since, oldest first.
Construct(sc, c) ==
    IF c.via = "reduce" THEN AfterInit(AfterNew(sc, c), c) ELSE AfterNew(sc, c)

\* PlaceholderObject.__setstate__(state): self._state = state
SetStateKeepsFirst(obj, st) ==
    IF obj.state.set /\ obj.state.v # StNone THEN obj
    ELSE [obj EXCEPT !.state = [set |-> TRUE, v |-> st]]

SetState(obj, st) == [obj EXCEPT !.state = [set |-> TRUE, v |-> st]]

Top == stack[Len(stack)]

\* memo[i] = stack[-1]
MemoStore(m, i, ref) == [k \in (DOMAIN m) \cup {i} |-> IF k = i THEN ref ELSE m[k]]

\* stack.append(memo[i]): the memoized reference itself.
MemoLoadCopy(m, h, i) == [ref |-> Len(h) + 1, heap |-> Append(h, h[m[i]])]

MemoLoad(m, h, i) == [ref |-> m[i], heap |-> h]

\* The loads made so far, as <<memo id, reference>>: all of them, and
\* those made since the entry of their id last changed (NoGets: none);
\* "changed" is the ids whose entry a store has replaced.
Got(g, i, ref) ==
    [g EXCEPT !.all = @ \cup {<<i, ref>>}, !.live = @ \cup {<<i, ref>>}]
Stored(g, m, i, ref) ==
    IF i \in DOMAIN m /\ m[i] # ref
    THEN [g EXCEPT !.live = {x \in @ : x[1] # i}, !.changed = @ \cup {i}]
    ELSE g

LoadFrame == UNCHANGED <<script, findVars, resolveVars, pipeVars>>

\* GLOBAL ... then NEWOBJ / NEWOBJ_EX / REDUCE: a new instance is pushed.
OpConstruct ==
    /\ lpc = "run"
    /\ Len(heap) + 1 \in ObjectIds
    /\ Len(stack) + 1 \in StackSlots
    /\ \E c \in Ctors :
          /\ heap' = Append(heap, Construct(script, c))
          /\ stack' = Append(stack, Len(heap) + 1)
    /\ UNCHANGED <<memo, gets, lpc>>
    /\ LoadFrame

\* BUILD: state = stack.pop(); inst = stack[-1]; inst.__setstate__(state)
OpBuild ==
    /\ lpc = "run"
    /\ stack # <<>>
    /\ Len(heap[Top].restored) < MaxRestores
    /\ \E st \in RestoreVals :
          heap' = [heap EXCEPT ![Top] =
                      [SetState(@, st) EXCEPT !.restored = Append(@, st)]]
    /\ UNCHANGED <<stack, memo, gets, lpc>>
    /\ LoadFrame

\* MEMOIZE: memo[len(memo)] = stack[-1]
OpMemoize ==
    /\ lpc = "run"
    /\ stack # <<>>
    /\ Cardinality(DOMAIN memo) \in MemoIds
    /\ LET i == Cardinality(DOMAIN memo)
       IN  /\ memo' = MemoStore(memo, i, Top)
           /\ gets' = Stored(gets, memo, i, Top)
    /\ UNCHANGED <<heap, stack, lpc>>
    /\ LoadFrame

\* PUT / BINPUT / LONG_BINPUT i: memo[i] = stack[-1]
OpPut ==
    /\ lpc = "run"
    /\ stack # <<>>
    /\ \E i \in MemoIds :
          /\ memo' = MemoStore(memo, i, Top)
          /\ gets' = Stored(gets, memo, i, Top)
    /\ UNCHANGED <<heap, stack, lpc>>
    /\ LoadFrame

\* GET / BINGET / LONG_BINGET i: push memo[i]; an unknown id fails the load.
OpGet ==
    /\ lpc = "run"
    /\ Len(stack) + 1 \in StackSlots
    /\ \E i \in MemoIds :
          IF i \in DOMAIN memo
          THEN LET r == MemoLoad(memo, heap, i)
               IN  /\ heap' = r.heap
                   /\ stack' = Append(stack, r.ref)
                   /\ gets' = Got(gets, i, r.ref)
                   /\ UNCHANGED lpc
          ELSE /\ lpc' = "error"
               /\ UNCHANGED <<heap, stack, gets>>
    /\ UNCHANGED memo
    /\ LoadFrame

\* STOP: the value on top of the stack is what load() returns.
OpStop ==
    /\ lpc = "run"
    /\ lpc' = IF stack = <<>> THEN "error" ELSE "stop"
    /\ UNCHANGED <<heap, stack, memo, gets>>
    /\ LoadFrame

InitLoad ==
    /\ FindInit
    /\ ResolveIdle
    /\ PipeIdle
    /\ script \in Scripts
    /\ heap = <<>>
    /\ stack = <<>>
    /\ memo = <<>>
    /\ gets = NoGets
    /\ lpc = "run"

NextLoad ==
    \/ OpConstruct
    \/ OpBuild
    \/ OpMemoize
    \/ OpPut
    \/ OpGet
    \/ OpStop

SpecLoad == InitLoad /\ [][NextLoad]_vars

(***************************************************************************)
(* Properties of SafeUnpickler.find_class (SpecFind).                      *)
(***************************************************************************)
\* C6: find_class never fails - every call with a (namespace, type-name)
\* pair that does not resolve to a real type returns a placeholder class
\* (never raises), and that class carries exactly the requested namespace
\* and type-name and derives from PlaceholderObject.
C6_FindClassNeverFails ==
    \A r \in returned :
        SuperFindClass(r[1][1], r[1][2]) # "resolved" =>
            /\ r[2].kind = "placeholder"
            /\ r[2].id \in 1..Len(classes)
            /\ classes[r[2].id] =
                   [name |-> r[1][2], module |-> r[1][1], base |-> "PlaceholderObject"]

\* C7: after any sequence of find_class calls, each unknown pair maps to
\* one placeholder class - all calls with the same unknown pair returned
\* the same class, calls with different unknown pairs returned different
\* classes, and the class returned for a pair is still the entry of
\* known_placeholders for it (never replaced, never removed).
C7_OneStrategyPerPair ==
    /\ \A r1, r2 \in returned :
           (r1[2].kind = "placeholder" /\ r2[2].kind = "placeholder") =>
               ((r1[1] = r2[1]) <=> (r1[2].id = r2[2].id))
    /\ \A r \in returned :
           r[2].kind = "placeholder" =>
               /\ r[1] \in DOMAIN known_placeholders
               /\ known_placeholders[r[1]] = r[2].id

\* Three calls that produced two placeholder classes: one unknown pair was
\* requested twice, another one once.
C7_Witness ==
    /\ calls = 3
    /\ Cardinality(returned) = 2
    /\ \A r \in returned : r[2].kind = "placeholder"
    /\ Cardinality(DOMAIN known_placeholders) = 2

(***************************************************************************)
(* Properties of attribute resolution (SpecResolve).                       *)
(***************************************************************************)
\* C3: for a Placeholder slot value and each attribute of {name, game}, if
\* the restored state (a mapping, or a mapping of a 2-tuple, first before
\* second) contains the attribute, the recorded value is the state entry
\* whatever the constructor arguments are - for __getattr__ and for the
\* pair returned by resolve_player_info.  Stated for the state entries that
\* are non-empty strings, which no truthiness test of the code can take
\* for a missing value.
C3_StateShadowsArgs ==
    slot_obj.kind = "placeholder" =>
        \A a \in AttrNames :
            (StateLookup(slot_obj.state, a) # Absent
                 /\ Truthy(StateLookup(slot_obj.state, a))) =>
                /\ (rop = "getattr" /\ rres.attr = a) =>
                       rres.val = StateLookup(slot_obj.state, a)
                /\ rop = "resolve_player_info" =>
                       (IF a = "name" THEN rres.name ELSE rres.game)
                           = StateLookup(slot_obj.state, a)

\* C4: resolve_attribute on a Placeholder whose restored state is a mapping
\* that does not contain the attribute and whose recorded constructor
\* arguments have at least 1 element (name) or 2 elements (game) returns
\* element 0 (resp. element 1), not "unknown"; and when the state mapping
\* contains the attribute it returns that entry.
C4_ArgsAfterStateMiss ==
    (rop = "resolve_attribute" /\ slot_obj.kind = "placeholder"
         /\ slot_obj.via = "reduce" /\ slot_obj.state.kind = "dict") =>
        LET a == rres.attr
            idx == IF a = "name" THEN 1 ELSE 2
        IN  IF a \in DOMAIN slot_obj.state.d
            THEN rres.val = slot_obj.state.d[a]
            ELSE Len(slot_obj.args) >= idx => rres.val = slot_obj.args[idx]

\* C8: in every report variant, building the player-table entry of a slot
\* value never raises, and a name or game that no strategy can resolve (no
\* native field, no state mapping with the attribute, constructor
\* arguments too short) is recorded as the literal "Unknown".  The literal
\* is stated for the two scripts that use resolve_player_info;
\* sphere_reader_goodenough.py writes "Unknown Player <id>" and
\* "Unknown Game" in its place.
C8_UnknownLiteral ==
    rop = "entry" =>
        /\ ~rres.raised
        /\ \A a \in AttrNames :
               LET idx == IF a = "name" THEN 1 ELSE 2
                   unresolvable ==
                       \/ slot_obj.kind = "plain"
                       \/ /\ slot_obj.kind = "placeholder"
                          /\ StateLookup(slot_obj.state, a) = Absent
                          /\ Len(slot_obj.args) < idx
               IN  (unresolvable /\ rres.attr # "goodenough") =>
                       (IF a = "name" THEN rres.name ELSE rres.game) = "Unknown"

(***************************************************************************)
(* Properties of the report pipeline (Spec).                               *)
(***************************************************************************)
Logged(msg) == \E i \in DOMAIN log : log[i] = msg

LastLog == IF log = <<>> THEN "" ELSE log[Len(log)]

IsSphereLine(l) == l.t = "sphere"

IsPlayerLine(l) == l.t = "player"

IsLocLine(l) == l.t = "loc"

IsRankLine(l) == l.t = "rank"

IsRankingHeader(l) == l.t = "ranking"

\* The lines of the k-th sphere block: from after its header to before the
\* next sphere header or the ranking header.
BlockOf(k) ==
    LET i == CHOOSE i \in DOMAIN out : out[i].t = "sphere" /\ out[i].n = k
        stops == {j \in DOMAIN out : j > i /\ out[j].t \in {"sphere", "ranking"}}
        last == IF stops = {} THEN Len(out)
                ELSE (CHOOSE j \in stops : \A j2 \in stops : j <= j2) - 1
    IN  SubSeq(out, i + 1, last)

\* The number of location ids a sphere holds over all its players.
RECURSIVE TotalLocs(_, _)
TotalLocs(sphere, pids) ==
    IF pids = {} THEN 0
    ELSE LET p == CHOOSE p \in pids : TRUE
         IN  Cardinality(sphere[p]) + TotalLocs(sphere, pids \ {p})

\* C1: in the ranking variant, for every decoded graph with a spheres
\* sequence, report generation completes: the file holds the header block,
\* the sphere blocks, then the ranking header followed only by ranking
\* entries (none when sphere index 0 has no players), and the run ends
\* with the success message.
C1_RankingReportCompletes ==
    (variant = "ranking" /\ pc = "done" /\ data.hasSpheres) =>
        /\ fileOpened
        /\ LastLog = "SUCCESS: Report generated"
        /\ Len(out) >= 4
        /\ SubSeq(out, 1, 4) = HeaderLines(data.spheres)
        /\ \E i \in DOMAIN out :
               /\ IsRankingHeader(out[i])
               /\ \A j \in DOMAIN out : j > i <=> IsRankLine(out[j])
               /\ (data.spheres = <<>> \/ DOMAIN data.spheres[1] = {}) => i = Len(out)

\* C2: in every variant the report holds exactly one "--- Sphere k ---"
\* header for each k of 1..N, in increasing k, N the number of spheres; and
\* the block of every non-empty sphere lists all players of that sphere,
\* by ascending id, with all their locations.  Stated for the runs that
\* end with the script's success message.
C2_EverySphereRendered ==
    (pc = "done" /\ fileOpened
         /\ LastLog \in {"SUCCESS: Report generated", "SUCCESS: Readable report written"}) =>
        LET sp == data.spheres
            hdrs == SelectSeq(out, IsSphereLine)
        IN  /\ Len(hdrs) = Len(sp)
            /\ \A k \in 1..Len(hdrs) : hdrs[k].n = k
            /\ \A k \in 1..Len(sp) :
                   DOMAIN sp[k] # {} =>
                       LET block == BlockOf(k)
                           players == SelectSeq(block, IsPlayerLine)
                           pids == SortedAsc(DOMAIN sp[k])
                       IN  /\ Len(players) = Len(pids)
                           /\ \A i \in 1..Len(pids) :
                                  /\ players[i].a = PlayerInfo(player_db, pids[i]).name
                                  /\ players[i].b = PlayerInfo(player_db, pids[i]).game
                           /\ Len(SelectSeq(block, IsLocLine)) = TotalLocs(sp[k], DOMAIN sp[k])

\* C5: when sphere index 0 is non-empty, the ranking block has exactly one
\* entry per player id of sphere index 0 and no other; each count is the
\* number of location ids sphere index 0 holds for that player; entries
\* are in descending count order, equal counts by ascending player id.
C5_RankingOfFirstSphere ==
    (variant = "ranking" /\ pc = "done" /\ fileOpened
         /\ data.spheres # <<>> /\ DOMAIN data.spheres[1] # {}) =>
        LET s0 == data.spheres[1]
            sc == sorted_count.v
            ranks == SelectSeq(out, IsRankLine)
        IN  /\ sorted_count.bound
            /\ Len(sc) = Cardinality(DOMAIN s0)
            /\ {sc[i][1] : i \in DOMAIN sc} = DOMAIN s0
            /\ \A i \in DOMAIN sc : sc[i][2] = Cardinality(s0[sc[i][1]])
            /\ \A i, j \in DOMAIN sc :
                   i < j => \/ sc[i][2] > sc[j][2]
                            \/ (sc[i][2] = sc[j][2] /\ sc[i][1] < sc[j][1])
            /\ Len(ranks) = Len(sc)
            /\ \A i \in DOMAIN sc :
                   ranks[i] = Line("rank", sc[i][2], PlayerInfo(player_db, sc[i][1]).name,
                                   PlayerInfo(player_db, sc[i][1]).game)

\* Player 2 holds more checks than player 1 in sphere index 0, and a later
\* sphere gives player 1 more locations.
C5_Witness ==
    /\ variant = "ranking"
    /\ pc = "done"
    /\ fileOpened
    /\ Len(data.spheres) = 2
    /\ DOMAIN data.spheres[1] = {1, 2}
    /\ data.spheres[1][1] = {10}
    /\ data.spheres[1][2] = {10, 11}
    /\ DOMAIN data.spheres[2] = {1}
    /\ data.spheres[2][1] = {10, 11}
    /\ sorted_count.v = << <<2, 2>>, <<1, 1>> >>

\* C9: when load() fails in process_archipelago_file, the run stops there -
\* no decoded value is kept, no table is built, the report file is never
\* opened and nothing is written.
C9_DecodeFailureStops ==
    (variant = "ranking" /\ Logged("Error unpickling data")) =>
        /\ pc = "done"
        /\ LastLog = "Error unpickling data"
        /\ data = NoData
        /\ location_db = EmptyDict
        /\ player_db = EmptyDict
        /\ ~fileOpened
        /\ out = <<>>

\* The decode failed on the inflated payload.
C9_Witness ==
    /\ variant = "ranking"
    /\ pc = "done"
    /\ raw_data # <<>>
    /\ ZlibDecompress(Tail(raw_data)).ok
    /\ decompressed_data = ZlibDecompress(Tail(raw_data)).bytes
    /\ LastLog = "Error unpickling data"

\* C10: when the decoded graph has no spheres entry, every variant stops
\* before any output - the report file is never opened or written,
\* whether or not datapackage and slot_info are present.
C10_NoSpheresNoReport ==
    ((Logged("Unpickling successful.") \/ Logged("Data loaded successfully."))
         /\ ~data.hasSpheres) =>
        /\ pc \in {"check", "done"}
        /\ ~fileOpened
        /\ out = <<>>

\* A graph with datapackage and slot_info but no spheres, run to the end.
C10_Witness ==
    /\ pc = "done"
    /\ LastLog = "Error: 'spheres' key not found"
    /\ ~data.hasSpheres
    /\ data.hasDatapackage
    /\ data.hasSlotInfo

(***************************************************************************)
(* Properties of one load() (SpecLoad).                                    *)
(***************************************************************************)
LoadsAgree(g) == \A x, y \in g : x[1] = y[1] => x[2] = y[2]

InflateFailed == raw_data # <<>> /\ ~ZlibDecompress(Tail(raw_data)).ok

\* The position of the first occurrence of msg in the log, 0 if none.
LogPos(msg) ==
    IF Logged(msg) THEN CHOOSE i \in DOMAIN log :
                            log[i] = msg /\ \A j \in DOMAIN log : log[j] = msg => i <= j
    ELSE 0

FallbackMessage == "Zlib decompression failed. Trying to read as raw pickle"
DecodeMessages == {"Unpickling successful.", "Error unpickling data"}

\* C12: when inflating the bytes after the version tag fails,
\* process_archipelago_file prints the fallback message before any decode
\* attempt and decodes the complete raw bytes, byte 0 included; decode_file
\* stops at the decompression stage: no raw dump, no decode, no text dump.
C12_InflateFailureIsNeverSilent ==
    /\ (variant = "ranking" /\ InflateFailed /\ pc \notin {"start", "read", "decompress"})
          => /\ Logged(FallbackMessage)
             /\ decompressed_data = raw_data
             /\ \A i \in DOMAIN log : log[i] \in DecodeMessages => LogPos(FallbackMessage) < i
             /\ pc = "unpickle" => file_buffer = <<>>
             /\ pc # "unpickle" => /\ file_buffer = raw_data
                                   /\ \E i \in DOMAIN log : log[i] \in DecodeMessages
    /\ (variant = "decode" /\ InflateFailed /\ pc \notin {"d_start", "d_read", "d_decompress"})
          => /\ pc = "done"
             /\ LastLog = "Error: Zlib decompression failed."
             /\ raw_dump = NoRawDump
             /\ text_dump = NoTextDump
             /\ file_buffer = <<>>
             /\ data = NoData

\* A run of process_archipelago_file on a bare pickle: the fallback was
\* printed and the decoder was given the file from its first byte on.
C12_Witness ==
    /\ variant = "ranking"
    /\ InflateFailed
    /\ Logged(FallbackMessage)
    /\ Logged("Unpickling successful.")
    /\ file_buffer = raw_data
    /\ file_buffer[1] = 128

(***************************************************************************)
(* Properties of decode_file (SpecScripts).                                *)
(***************************************************************************)
RawDumpWarning == "Warning: Could not write raw pickle file."

\* The log ends with the messages msgs.
LogEndsWith(msgs) ==
    /\ Len(log) >= Len(msgs)
    /\ SubSeq(log, Len(log) - Len(msgs) + 1, Len(log)) = msgs

\* C13: in decode_file a failed raw dump is logged and the decode is still
\* attempted on the same decompressed bytes; a failed decode or text dump
\* is logged and the function returns normally.
C13_SideOutputsAreBestEffort ==
    variant = "decode" =>
       /\ Logged(RawDumpWarning)
             => /\ pc \in {"d_decode", "d_textdump", "done"}
                /\ decompressed_data = ZlibDecompress(Tail(raw_data)).bytes
                /\ pc = "d_decode" => ENABLED DecodeLoad
                /\ pc # "d_decode" => file_buffer = decompressed_data
       /\ Logged(TextDumpFailure[1])
             => /\ pc = "done"
                /\ LogEndsWith(TextDumpFailure)
                /\ ~Logged("An unexpected error occurred")
       /\ (pc = "done" /\ file_buffer # <<>> /\ ~text_dump.written)
             => LogEndsWith(TextDumpFailure)

\* The raw dump failed, and the text dump of the same bytes was written.
C13_Witness ==
    /\ variant = "decode"
    /\ pc = "done"
    /\ Logged(RawDumpWarning)
    /\ ~raw_dump.written
    /\ text_dump.written
    /\ file_buffer = decompressed_data

(***************************************************************************)
(* Properties of the location lines (Spec).                                *)
(***************************************************************************)
\* The location lines under the j-th Player line of a sphere block.
LocLinesOfPlayer(block, j) ==
    LET ppos == {i \in DOMAIN block : IsPlayerLine(block[i])}
        start == SortedAsc(ppos)[j]
        later == {i \in ppos : i > start}
        end == IF later = {} THEN Len(block)
               ELSE (CHOOSE i \in later : \A i2 \in later : i <= i2) - 1
    IN  SelectSeq(SubSeq(block, start + 1, end), IsLocLine)

\* The decoded datapackage names location id L for game G.
NamedIn(d, G, L) ==
    /\ d.hasDatapackage
    /\ G \in DOMAIN d.datapackage
    /\ d.datapackage[G].hasL2I
    /\ \E e \in DOMAIN d.datapackage[G].l2i : d.datapackage[G].l2i[e][2] = L

\* text is what the claim lets a line say for location id L of game G.
RenderedAs(d, G, L, text) ==
    IF NamedIn(d, G, L)
    THEN \E e \in DOMAIN d.datapackage[G].l2i :
            d.datapackage[G].l2i[e] = <<text, L>>
    ELSE text = "Unknown ID " \o IntStr(L)

\* C14: every location id L rendered for a player whose resolved game is G
\* is a name N with location_name_to_id[G][N] = L when G has such a name,
\* and exactly "Unknown ID L" otherwise; every location id of a rendered
\* player gets its line.
C14_LocationLines ==
    (pc = "done" /\ fileOpened) =>
        \A k \in {out[i].n : i \in {i2 \in DOMAIN out : IsSphereLine(out[i2])}} :
            LET block == BlockOf(k)
                players == SelectSeq(block, IsPlayerLine)
                pids == SortedAsc(DOMAIN data.spheres[k])
            IN  \A j \in 1..Len(players) :
                    /\ j <= Len(pids)
                    /\ LET G == PlayerInfo(player_db, pids[j]).game
                           locs == SortedAsc(data.spheres[k][pids[j]])
                           lines == LocLinesOfPlayer(block, j)
                       IN  /\ Len(lines) = Len(locs)
                           /\ \A n \in 1..Len(locs) :
                                  RenderedAs(data, G, locs[n], lines[n].a)

\* A report that names location 10 by the later of its two names and has
\* no name for a location of a player whose game is not in the datapackage.
C14_Witness ==
    /\ pc = "done"
    /\ fileOpened
    /\ data.hasDatapackage
    /\ data.datapackage["GameA"] = GameDup
    /\ \E i \in DOMAIN out : out[i] = Line("loc", 0, "Begin", "")
    /\ \E i \in DOMAIN out : out[i] = Line("loc", 0, "Unknown ID 10", "")

\* What the constructor call c leaves in the restored-state field.
StateAfter(c) ==
    IF c.via = "reduce" THEN [set |-> TRUE, v |-> StNone]
    ELSE [set |-> FALSE, v |-> StNone]

\* C15: after any sequence of __setstate__ calls on a Placeholder the
\* restored-state field is the value of the most recent call (absent or
\* None before the first), and every call leaves the recorded positional
\* arguments, the recorded keyword arguments and the class unchanged.
C15_RestoreOverwritesStateOnly ==
    /\ [](\A r \in DOMAIN heap :
             LET o == heap[r]
             IN  IF o.restored = <<>> THEN o.state = StateAfter(o.ctor)
                 ELSE o.state = [set |-> TRUE, v |-> o.restored[Len(o.restored)]])
    /\ [][\A r \in DOMAIN heap :
             heap'[r].restored # heap[r].restored
                 => /\ heap'[r].cls = heap[r].cls
                    /\ heap'[r].new = heap[r].new
                    /\ heap'[r].init = heap[r].init]_vars

\* A Placeholder made without __init__ whose state was restored twice, the
\* second value replacing a different first one; its recorded arguments are
\* those of the constructor call.
C15_Witness ==
    \E r \in DOMAIN heap :
        LET o == heap[r]
        IN  /\ o.ctor.via = "newobj_ex"
            /\ Len(o.restored) = 2
            /\ o.restored[1] # o.restored[2]
            /\ o.state.v = o.restored[2]
            /\ script = "WorldPicker"
            /\ o.new = Recorded(o.ctor.args, o.ctor.kwargs)

(***************************************************************************)
(* Properties of the messages of decode_file (SpecScripts).                *)
(***************************************************************************)
\* The messages that state that the raw decompressed file exists.
RawFileMessages ==
    {"SUCCESS: Raw decompressed file saved",
     "You can use this .pickle file with other tools or scripts.",
     "However, the raw file was generated successfully."}

\* C16: in a run of decode_file a message stating that the raw decompressed
\* file was generated (or is available) is printed only if the raw-dump
\* write of that run succeeded before.
C16_RawFileMessageOnlyAfterRawDump ==
    variant = "decode" =>
        \A i \in DOMAIN log : log[i] \in RawFileMessages => raw_dump.written

====
